---- MODULE Spec2Model ----
(***************************************************************************)
(* Model of the DIY home repair backend.                                   *)
(*   Spec: the diagnose path, one request after the next: the upload, the  *)
(*   route of routes/analyze.ts, processImage, and analyzeRepair,          *)
(*   buildUserPrompt and getConfidenceLevel of the gemini service.         *)
(*   ServerSpec: diagnose, chat and users requests side by side, with the  *)
(*   database module and the users table of database/db.ts.                *)
(*                                                                         *)
(* Numbers.  Every JavaScript number of the model is a record              *)
(* [nan, v]: v counts TENTHS (0.7 is v = 7, 1 is v = 10) and nan marks the *)
(* IEEE NaN the code produces from Math.max(0, "abc").                     *)
(*                                                                         *)
(* JSON values.  A scalar field of the parsed model output is a record     *)
(* [t, n, s, b] with t in "undef" (key absent), "null", "num", "str",      *)
(* "bool", "obj", "arr" (an empty array); an array field is a record       *)
(* [t, items].                                                             *)
(***************************************************************************)
EXTENDS Integers, Sequences, FiniteSets, TLC

VARIABLES pc, body, metadata, hasImages, userPrompt, parts, prevPrompt, response,
          outcome, result, http, files, images, calls,
          GEMINI_API_KEY, DB_HOST, dbEnabled, pool, users, usr, chat

\* the state of the diagnose request in progress
diagVars ==
  <<pc, body, metadata, hasImages, userPrompt, parts, prevPrompt, response, outcome,
    result, http, files, images, calls>>

\* the environment of the process
envVars == <<GEMINI_API_KEY, DB_HOST>>

\* the database module and the users table
dbVars == <<dbEnabled, pool, users>>

\* everything but the diagnose request
serverVars == <<envVars, dbVars, usr, chat>>

vars == <<diagVars, serverVars>>

----------------------------------------------------------------------------
(* Bounds of the model *)

\* longest conversationHistory a request carries
MaxHistLen == 9
\* longest model reply, in tokens, among the replies that mix prose, fences,
\* braces and objects
MaxTextLen == 3
\* how far (in tenths) a model-reported confidence may lie outside [0,1]
ConfMargin == 2
\* most files one upload carries
MaxUpload == 5
\* most rows the users table gets
MaxUsers == 2

----------------------------------------------------------------------------
(* Program constants, in tenths *)

ConfLow == 0
ConfHigh == 10
DefaultConfidence == 5
NeedsInfoThreshold == 7
HighThreshold == 8
MediumThreshold == 6
maxRounds == 3
RoundDivisor == 3
\* multer: limits.files, and limits.fileSize in MB
LimitFiles == 4
LimitFileSize == 20
\* the route: most images of one request
MaxImages == 4
\* isValidFileSize: default of maxMB
maxMB == 20

----------------------------------------------------------------------------
(* JavaScript values *)

JUndef == [t |-> "undef", n |-> 0, s |-> "", b |-> FALSE]
JNull == [t |-> "null", n |-> 0, s |-> "", b |-> FALSE]
JNum(k) == [t |-> "num", n |-> k, s |-> "", b |-> FALSE]
JStr(str) == [t |-> "str", n |-> 0, s |-> str, b |-> FALSE]
JBool(bv) == [t |-> "bool", n |-> 0, s |-> "", b |-> bv]
JObj == [t |-> "obj", n |-> 0, s |-> "", b |-> FALSE]
\* an array met where a scalar is expected; n is its length, and a non-empty
\* one stands for an array of non-numeric strings
JArr(len) == [t |-> "arr", n |-> len, s |-> "", b |-> FALSE]
JEmptyArr == JArr(0)

Num(k) == [nan |-> FALSE, v |-> k]
NaN == [nan |-> TRUE, v |-> 0]

\* ToBoolean of a scalar: what `x || d` tests
Truthy(x) ==
  CASE x.t = "undef" -> FALSE
    [] x.t = "null" -> FALSE
    [] x.t = "num" -> x.n # 0
    [] x.t = "str" -> x.s # ""
    [] x.t = "bool" -> x.b
    [] OTHER -> TRUE

\* x || d
OrElseNoDefault(x, d) == x

OrElse(x, d) == IF Truthy(x) THEN x ELSE d

\* StringToNumber on the strings the model draws from
StrToNumber(str) ==
  CASE str = "" -> Num(0)
    [] str = "0.9" -> Num(9)
    [] str = "0.3" -> Num(3)
    [] OTHER -> NaN

\* ToNumber, applied by Math.max / Math.min to their arguments
ToNumber(x) ==
  CASE x.t = "undef" -> NaN
    [] x.t = "null" -> Num(0)
    [] x.t = "num" -> Num(x.n)
    [] x.t = "str" -> StrToNumber(x.s)
    [] x.t = "bool" -> (IF x.b THEN Num(10) ELSE Num(0))
    [] x.t = "arr" -> (IF x.n = 0 THEN Num(0) ELSE NaN)
    [] OTHER -> NaN

MathMax(a, b) ==
  IF a.nan \/ b.nan THEN NaN ELSE IF a.v >= b.v THEN a ELSE b

MathMin(a, b) ==
  IF a.nan \/ b.nan THEN NaN ELSE IF a.v <= b.v THEN a ELSE b

\* a < k and a >= k for a JavaScript number a and a constant k: false on NaN
NumLt(a, k) == ~a.nan /\ a.v < k
NumGe(a, k) == ~a.nan /\ a.v >= k

----------------------------------------------------------------------------
(* getConfidenceLevel *)

getConfidenceLevelLowerHigh(confidence) ==
  IF NumGe(confidence, NeedsInfoThreshold) THEN "high"
  ELSE IF NumGe(confidence, MediumThreshold) THEN "medium"
  ELSE "low"

getConfidenceLevel(confidence) ==
  IF NumGe(confidence, HighThreshold) THEN "high"
  ELSE IF NumGe(confidence, MediumThreshold) THEN "medium"
  ELSE "low"

----------------------------------------------------------------------------
(* Array-valued fields of the parsed model output *)

ArrUndef == [t |-> "undef", items |-> <<>>]
ArrNull == [t |-> "null", items |-> <<>>]
\* a non-empty string where an array is expected
ArrStr == [t |-> "str", items |-> <<>>]
Arr(items) == [t |-> "arr", items |-> items]

\* ToBoolean of an array-valued field
ArrTruthy(a) == a.t \notin {"undef", "null"}

\* a || []
ArrOrEmpty(a) == IF ArrTruthy(a) THEN a ELSE Arr(<<>>)

\* (a || []).map(f) throws a TypeError when a is truthy but has no map method
MapThrows(a) == ArrTruthy(a) /\ a.t # "arr"

\* reading a property of null or undefined throws a TypeError
IsNullish(item) == item.t \in {"undef", "null"}

SeqMap(F(_), seq) == [i \in 1..Len(seq) |-> F(seq[i])]

RECURSIVE SeqFilter(_, _)
SeqFilter(Keep(_), seq) ==
  IF seq = <<>> THEN <<>>
  ELSE IF Keep(Head(seq)) THEN <<Head(seq)>> \o SeqFilter(Keep, Tail(seq))
  ELSE SeqFilter(Keep, Tail(seq))

----------------------------------------------------------------------------
(* Items of the arrays of the model output *)

\* a clarifying question as the model wrote it; question = "" is a missing key
QObj(q, sugg) == [t |-> "obj", question |-> q, suggestions |-> sugg]
QNull == [t |-> "null", question |-> "", suggestions |-> ArrUndef]

MObj(item, qty) ==
  [t |-> "obj", item |-> item, spec |-> "", qty |-> qty, description |-> "",
   howToUse |-> "", estimatedCost |-> ""]

\* an entry of tools: a plain string, or an object whose name and description
\* are scalars (JUndef for a missing key)
TStr(str) ==
  [t |-> "str", s |-> str, name |-> JUndef, description |-> JUndef, howToUse |-> JUndef]
TObj(name, desc) ==
  [t |-> "obj", s |-> "", name |-> name, description |-> desc, howToUse |-> JUndef]
TNull == [t |-> "null", s |-> "", name |-> JUndef, description |-> JUndef, howToUse |-> JUndef]

DObj(type, sev, area) == [t |-> "obj", type |-> type, severity |-> sev, affectedArea |-> area]
DUndef == [t |-> "undef", type |-> "", severity |-> "", affectedArea |-> ""]

----------------------------------------------------------------------------
(* analyzeRepair: normalisation of the parsed model output *)

\* Math.min(1, Math.max(0, parsed.confidence || 0.5))
ClampConfidenceNoUpper(parsed) ==
  MathMax(Num(ConfLow), ToNumber(OrElse(parsed.confidence, JNum(DefaultConfidence))))

ClampConfidence(parsed) ==
  MathMin(Num(ConfHigh),
          MathMax(Num(ConfLow), ToNumber(OrElse(parsed.confidence, JNum(DefaultConfidence)))))

\* parsed.needsMoreInfo === true || confidence < 0.7
NeedsMoreInfoFlagOnly(parsed, confidence) ==
  parsed.needsMoreInfo = JBool(TRUE)

NeedsMoreInfoThresholdOnly(parsed, confidence) ==
  NumLt(confidence, NeedsInfoThreshold)

NeedsMoreInfo(parsed, confidence) ==
  parsed.needsMoreInfo = JBool(TRUE) \/ NumLt(confidence, NeedsInfoThreshold)

\* q => ({ question: q.question || '', suggestions: Array.isArray(...) ? ... : [] })
MapQuestion(q) ==
  [question |-> q.question,
   suggestions |-> IF q.suggestions.t = "arr" THEN q.suggestions.items ELSE <<>>]

MapMaterial(m) ==
  [item |-> m.item, spec |-> m.spec, qty |-> m.qty, description |-> m.description,
   howToUse |-> m.howToUse, estimatedCost |-> m.estimatedCost]

MapToolNoStrings(tl) ==
  [name |-> OrElse(tl.name, JStr("")),
   description |-> OrElse(tl.description, JStr("")),
   howToUse |-> OrElse(tl.howToUse, JStr(""))]

MapTool(tl) ==
  [name |-> IF tl.t = "str" THEN JStr(tl.s) ELSE OrElse(tl.name, JStr("")),
   description |-> IF tl.t = "str" THEN JStr("") ELSE OrElse(tl.description, JStr("")),
   howToUse |-> IF tl.t = "str" THEN JStr("") ELSE OrElse(tl.howToUse, JStr(""))]

\* (a || []).map(f) raises a TypeError
MapFails(a) ==
  \/ MapThrows(a)
  \/ a.t = "arr" /\ \E i \in 1..Len(a.items) : IsNullish(a.items[i])

\* q && q.length > 0 on an entry of suggestedQuestions
KeepSuggested(q) ==
  /\ Truthy(q)
  /\ \/ q.t = "str"
     \/ q.t = "arr" /\ q.n > 0

DefaultDamage == DObj("Unknown", "moderate", "Unknown")

\* the statements of the try block after JSON.parse raise
NormalizeThrows(parsed) ==
  MapFails(parsed.questions) \/ MapFails(parsed.materials) \/ MapFails(parsed.tools)

\* the keys of the AnalysisResult interface
AnalysisResultKeys ==
  {"needsMoreInfo", "questions", "summary", "confidence", "confidenceLevel",
   "problemShort", "diyFriendly", "difficulty", "estimatedTime", "estimatedCost",
   "proEstimate", "immediateActions", "damage", "materials", "tools", "steps",
   "cureTimeNotes", "warnings", "callAProIf", "youtubeSearchQuery", "proType",
   "suggestedQuestions", "followups", "additionalPhotosNeeded"}

\* the object literal returned by analyzeRepair
Normalize(parsed) ==
  LET confidence == ClampConfidence(parsed)
      confidenceLevel == getConfidenceLevel(confidence)
      needsMoreInfo == NeedsMoreInfo(parsed, confidence)
      questions == SeqMap(MapQuestion, ArrOrEmpty(parsed.questions).items)
  IN [needsMoreInfo |-> needsMoreInfo,
      questions |-> questions,
      summary |-> OrElse(parsed.summary, JStr("Unable to determine issue")),
      confidence |-> confidence,
      confidenceLevel |-> confidenceLevel,
      problemShort |-> OrElse(parsed.problemShort, JStr("")),
      diyFriendly |-> OrElse(parsed.diyFriendly, JStr("maybe")),
      difficulty |-> OrElse(parsed.difficulty, JStr("medium")),
      estimatedTime |-> OrElse(parsed.estimatedTime, JStr("")),
      estimatedCost |-> OrElse(parsed.estimatedCost, JStr("")),
      proEstimate |-> OrElse(parsed.proEstimate, JStr("")),
      immediateActions |-> ArrOrEmpty(parsed.immediateActions),
      damage |-> IF parsed.damage.t \in {"undef", "null"} THEN DefaultDamage
                 ELSE parsed.damage,
      materials |-> SeqMap(MapMaterial, ArrOrEmpty(parsed.materials).items),
      tools |-> SeqMap(MapTool, ArrOrEmpty(parsed.tools).items),
      steps |-> ArrOrEmpty(parsed.steps),
      cureTimeNotes |-> OrElse(parsed.cureTimeNotes, JStr("")),
      warnings |-> ArrOrEmpty(parsed.warnings),
      callAProIf |-> ArrOrEmpty(parsed.callAProIf),
      youtubeSearchQuery |-> OrElse(parsed.youtubeSearchQuery, JStr("")),
      proType |-> OrElse(parsed.proType, JStr("")),
      suggestedQuestions |->
        IF parsed.suggestedQuestions.t = "arr"
        THEN SeqFilter(KeepSuggested, parsed.suggestedQuestions.items)
        ELSE <<>>,
      followups |-> <<>>,
      additionalPhotosNeeded |-> needsMoreInfo]

----------------------------------------------------------------------------
(* buildUserPrompt.  A prompt is the sequence of its non-blank lines; the    *)
(* round instruction is the sequence of its sentences.                       *)

\* conversationHistory as JSON.parse leaves it: absent, an array, or (the
\* request being free to send anything) a non-empty string or an object
NoHistory == [present |-> FALSE, t |-> "undef", items |-> <<>>]
History(items) == [present |-> TRUE, t |-> "arr", items |-> items]
HistoryString == [present |-> TRUE, t |-> "str", items |-> <<>>]
HistoryObject == [present |-> TRUE, t |-> "obj", items |-> <<>>]

\* an entry of conversationHistory: a question/answer pair, or null
Qa(q, a) == [t |-> "obj", question |-> q, answer |-> a]
QaNull == [t |-> "null", question |-> "", answer |-> ""]

NoProfile ==
  [present |-> FALSE, email |-> "", homeType |-> "", yearBuilt |-> "", pipeType |-> "",
   waterHeaterType |-> "", hvacType |-> "", hvacAge |-> "", roofType |-> "",
   roofAge |-> "", mainFlooring |-> ""]

\* metadata.conversationHistory && metadata.conversationHistory.length > 0
HasConversation(md) ==
  /\ md.conversationHistory.present
  /\ \/ md.conversationHistory.t = "str"
     \/ md.conversationHistory.t = "arr" /\ Len(md.conversationHistory.items) > 0

\* conversationHistory.map(...) raises a TypeError: the value has no map
\* method, or an entry is null
buildUserPromptThrows(md) ==
  /\ HasConversation(md)
  /\ \/ md.conversationHistory.t # "arr"
     \/ \E i \in 1..Len(md.conversationHistory.items) :
          IsNullish(md.conversationHistory.items[i])

\* Math.ceil(n / d)
CeilDiv(n, d) == (n + d - 1) \div d

RoundNumberFloor(md) ==
  IF HasConversation(md)
  THEN (Len(md.conversationHistory.items) \div RoundDivisor) + 1
  ELSE 1

RoundNumber(md) ==
  IF HasConversation(md)
  THEN CeilDiv(Len(md.conversationHistory.items), RoundDivisor) + 1
  ELSE 1

\* Object.keys(metadata.homeProfile).length > 0
ProfileHasKeys(pf) ==
  \E k \in {"email", "homeType", "yearBuilt", "pipeType", "waterHeaterType", "hvacType",
            "hvacAge", "roofType", "roofAge", "mainFlooring"} : pf[k] # ""

Line(cond, text) == IF cond THEN <<text>> ELSE <<>>

ProfileLines(pf) ==
  Line(pf.homeType # "", "- Home Type: " \o pf.homeType)
  \o Line(pf.yearBuilt # "", "- Year Built: " \o pf.yearBuilt)
  \o Line(pf.pipeType # "", "- Pipe Type: " \o pf.pipeType)
  \o Line(pf.waterHeaterType # "", "- Water Heater: " \o pf.waterHeaterType)
  \o Line(pf.hvacType # "",
          "- HVAC: " \o pf.hvacType
          \o (IF pf.hvacAge # "" THEN " (" \o pf.hvacAge \o " old)" ELSE ""))
  \o Line(pf.roofType # "",
          "- Roof: " \o pf.roofType
          \o (IF pf.roofAge # "" THEN " (" \o pf.roofAge \o " old)" ELSE ""))
  \o Line(pf.mainFlooring # "", "- Main Flooring: " \o pf.mainFlooring)

ProfileRationale ==
  "(Use this info to personalize advice - e.g., old galvanized pipes need different approach than PEX, older homes may have lead paint, etc.)"

ProfileSection(md) ==
  IF md.homeProfile.present /\ ProfileHasKeys(md.homeProfile)
     /\ ProfileLines(md.homeProfile) # <<>>
  THEN <<"HOME PROFILE:">> \o ProfileLines(md.homeProfile) \o <<ProfileRationale>>
  ELSE <<>>

RECURSIVE QaLines(_)
QaLines(items) ==
  IF items = <<>> THEN <<>>
  ELSE <<"Q: " \o Head(items).question,
         "A: " \o (IF Head(items).answer # "" THEN Head(items).answer ELSE "(skipped)")>>
       \o QaLines(Tail(items))

ConversationSection(md) ==
  IF HasConversation(md)
  THEN <<"PREVIOUS CONVERSATION:">> \o QaLines(md.conversationHistory.items)
  ELSE <<>>

ImageNote(img) == IF img THEN "(User provided photos)" ELSE "(No photos provided)"

RoundOf(r) == ToString(r) \o "/" \o ToString(maxRounds)

FinalInstruction(r) ==
  <<"This is round " \o RoundOf(r) \o " (final).",
    "Provide your best analysis now based on all available information.",
    "Do NOT ask more questions.">>

ContinuationInstruction(r) ==
  <<"Round " \o RoundOf(r) \o ".",
    "Review ALL information above (description + answers).",
    "Assess your DIAGNOSTIC CONFIDENCE based on how clearly you can identify the problem - not just because questions were answered.",
    "If the answers helped clarify the diagnosis, confidence should be higher.",
    "If answers were vague or unhelpful, confidence may still be low.">>

InitialInstruction ==
  <<"Round 1/" \o ToString(maxRounds) \o ".",
    "Assess your diagnostic confidence.",
    "Can you identify the specific problem?",
    "If unclear, ask 2-3 questions to help diagnose.">>

\* the local variable `instruction`
InstructionAnsweredOnly(md) ==
  LET answered == SeqFilter(LAMBDA qa : qa.answer # "", md.conversationHistory.items)
      r == IF answered # <<>> THEN CeilDiv(Len(answered), RoundDivisor) + 1 ELSE 1
  IN IF r >= maxRounds THEN FinalInstruction(r)
     ELSE IF HasConversation(md) THEN ContinuationInstruction(r)
     ELSE InitialInstruction

InstructionContinuationFirst(md) ==
  IF HasConversation(md) THEN ContinuationInstruction(RoundNumber(md))
  ELSE InitialInstruction

Instruction(md) ==
  IF RoundNumber(md) >= maxRounds THEN FinalInstruction(RoundNumber(md))
  ELSE IF HasConversation(md) THEN ContinuationInstruction(RoundNumber(md))
  ELSE InitialInstruction

Separator == "---"
ConfidenceBasis ==
  "Base your confidence on DIAGNOSTIC CLARITY - how well you can identify and fix the problem."

buildUserPromptHistoryFirst(md, img) ==
  <<"USER'S PROBLEM:", "\"" \o md.description.s \o "\"", ImageNote(img)>>
  \o ConversationSection(md)
  \o ProfileSection(md)
  \o <<Separator>>
  \o Instruction(md)
  \o <<ConfidenceBasis>>

buildUserPrompt(md, img) ==
  <<"USER'S PROBLEM:", "\"" \o md.description.s \o "\"", ImageNote(img)>>
  \o ProfileSection(md)
  \o ConversationSection(md)
  \o <<Separator>>
  \o Instruction(md)
  \o <<ConfidenceBasis>>

----------------------------------------------------------------------------
(* Inputs: requests and model outputs *)

\* a history of n entries: every answer given, every answer skipped, or the
\* odd entries skipped
MkHistory(n, pat) ==
  History([i \in 1..n |->
            Qa("Q" \o ToString(i),
               IF pat = "answered" \/ (pat = "mixed" /\ i % 2 = 0) THEN "yes" ELSE "")])

Histories ==
  {NoHistory} \cup {MkHistory(n, pat) : n \in 0..MaxHistLen, pat \in {"answered", "skipped", "mixed"}}

Profiles ==
  {NoProfile,
   [NoProfile EXCEPT !.present = TRUE],
   [NoProfile EXCEPT !.present = TRUE, !.email = "a@b.c"],
   [NoProfile EXCEPT !.present = TRUE, !.homeType = "house", !.hvacType = "central",
                     !.hvacAge = "5 years", !.roofAge = "10 years"]}

\* the value JSON.parse(metadataStr) gives: an object with a description, or
\* (t) null or a number
MetadataWith(desc, h, pf) ==
  [t |-> "obj", description |-> desc, conversationHistory |-> h, homeProfile |-> pf]

Metadata(h, pf) == MetadataWith(JStr("sink leaks"), h, pf)

Requests ==
  {Metadata(h, NoProfile) : h \in Histories}
  \cup {Metadata(h, pf) : h \in {NoHistory, MkHistory(1, "answered")}, pf \in Profiles}

\* the parsed object with every key absent
EmptyParsed ==
  [confidence |-> JUndef, needsMoreInfo |-> JUndef, confidenceLevel |-> JUndef,
   questions |-> ArrUndef, summary |-> JUndef, problemShort |-> JUndef,
   diyFriendly |-> JUndef, difficulty |-> JUndef, estimatedTime |-> JUndef,
   estimatedCost |-> JUndef, proEstimate |-> JUndef, immediateActions |-> ArrUndef,
   damage |-> DUndef, materials |-> ArrUndef, tools |-> ArrUndef, steps |-> ArrUndef,
   cureTimeNotes |-> JUndef, warnings |-> ArrUndef, callAProIf |-> ArrUndef,
   youtubeSearchQuery |-> JUndef, proType |-> JUndef, suggestedQuestions |-> ArrUndef]

\* the parsed object with the full-analysis keys written by the model
FullParsed ==
  [EmptyParsed EXCEPT
     !.summary = JStr("Leaking P-trap"),
     !.problemShort = JStr("Leaky P-trap"),
     !.diyFriendly = JStr("yes"),
     !.difficulty = JStr("easy"),
     !.estimatedTime = JStr("30 min"),
     !.estimatedCost = JStr("$10-20"),
     !.proEstimate = JStr("$150-300"),
     !.immediateActions = Arr(<<"Shut off the water">>),
     !.damage = DObj("Leak", "minor", "Under sink"),
     !.materials = Arr(<<MObj("P-trap kit", "1")>>),
     !.tools = Arr(<<TStr("sponge"), TObj(JStr("wrench"), JStr("loosen fitting"))>>),
     !.steps = Arr(<<"Remove trap", "Fit new trap", "Test">>),
     !.warnings = Arr(<<"Water may spill">>),
     !.callAProIf = Arr(<<"Pipe is corroded">>),
     !.youtubeSearchQuery = JStr("replace p-trap"),
     !.proType = JStr("plumber"),
     !.suggestedQuestions = Arr(<<JStr("How long will it last?"), JStr("")>>)]

ConfidenceValues ==
  {JNum(k) : k \in (ConfLow - ConfMargin)..(ConfHigh + ConfMargin)}
  \cup {JUndef, JNull, JStr(""), JStr("0.9"), JStr("high"), JBool(TRUE), JBool(FALSE),
        JObj, JEmptyArr}

FlagValues == {JUndef, JBool(TRUE), JBool(FALSE), JStr("true")}

LevelValues == {JUndef, JStr("high"), JStr("low")}

Question1 ==
  QObj("Where is the leak?", Arr(<<"Sink", "Toilet", "Wall">>))

QuestionValues ==
  {ArrUndef, Arr(<<Question1, QObj("Is it dripping now?", ArrUndef)>>)}

OddQuestionValues == {ArrNull, Arr(<<>>), ArrStr, Arr(<<Question1, QNull>>)}

\* oddly typed or out-of-schema values of single keys
OddObjects ==
  LET base == [EmptyParsed EXCEPT !.confidence = JNum(9)]
  IN {[base EXCEPT !.diyFriendly = JStr("sometimes")],
      [base EXCEPT !.difficulty = JStr("extreme")],
      [base EXCEPT !.damage = DObj("Leak", "catastrophic", "Wall")],
      [base EXCEPT !.damage = DObj("Leak", "severe", "Wall")],
      [base EXCEPT !.materials = ArrStr],
      [base EXCEPT !.tools = Arr(<<TStr("sponge"), TNull>>)],
      [base EXCEPT !.tools = Arr(<<TObj(JUndef, JStr("loosen fitting")),
                                  TObj(JStr("pliers"), JUndef), TStr("")>>)],
      [base EXCEPT !.tools = Arr(<<TObj(JUndef, JUndef)>>)],
      [base EXCEPT !.suggestedQuestions = ArrStr],
      [base EXCEPT !.suggestedQuestions =
                     Arr(<<JNum(5), JStr("Can I use tape?"), JNull, JObj, JStr("")>>)],
      [base EXCEPT !.suggestedQuestions = Arr(<<JEmptyArr, JStr("How long?")>>)],
      [base EXCEPT !.suggestedQuestions = Arr(<<JStr("How long?"), JArr(1)>>)]}

ParsedObjects ==
  {[base EXCEPT !.confidence = c, !.needsMoreInfo = f, !.confidenceLevel = l,
                !.questions = q] :
     base \in {EmptyParsed, FullParsed}, c \in ConfidenceValues, f \in FlagValues,
     l \in LevelValues, q \in QuestionValues}
  \cup {[EmptyParsed EXCEPT !.confidence = c, !.questions = q] :
          c \in {JNum(4), JNum(9)}, q \in OddQuestionValues}
  \cup OddObjects

----------------------------------------------------------------------------
(* The raw text of the model and the extraction of its JSON (lines 336-345). *)
(* A text is a sequence of tokens: a run of prose without braces or fences,  *)
(* a stray "{" or "}", the fence opener ```json, a bare fence ```, or the    *)
(* text of one well-formed JSON object.                                      *)

Prose == [k |-> "prose", o |-> EmptyParsed]
OpenBrace == [k |-> "open", o |-> EmptyParsed]
CloseBrace == [k |-> "close", o |-> EmptyParsed]
FenceJson == [k |-> "fence", o |-> EmptyParsed]
FenceEnd == [k |-> "endfence", o |-> EmptyParsed]
ObjText(obj) == [k |-> "obj", o |-> obj]

\* least index of a token of one of the kinds after position from, 0 if none
FirstIdx(text, kinds, from) ==
  IF \E i \in (from + 1)..Len(text) : text[i].k \in kinds
  THEN CHOOSE i \in (from + 1)..Len(text) :
         /\ text[i].k \in kinds
         /\ \A j \in (from + 1)..(i - 1) : text[j].k \notin kinds
  ELSE 0

\* greatest index of a token of one of the kinds, 0 if none
LastIdx(text, kinds) ==
  IF \E i \in 1..Len(text) : text[i].k \in kinds
  THEN CHOOSE i \in 1..Len(text) :
         /\ text[i].k \in kinds
         /\ \A j \in (i + 1)..Len(text) : text[j].k \notin kinds
  ELSE 0

\* text.match(/```json\s*([\s\S]*?)\s*```/): from the first ```json to the
\* nearest ``` behind it (the opener of a second block begins with ``` too)
FenceFrom(text) == FirstIdx(text, {"fence"}, 0)
FenceTo(text) ==
  IF FenceFrom(text) = 0 THEN 0
  ELSE FirstIdx(text, {"fence", "endfence"}, FenceFrom(text))
FenceMatches(text) == FenceTo(text) > 0

\* text.match(/\{[\s\S]*\}/): from the first "{" to the last "}"
BraceFrom(text) == FirstIdx(text, {"open", "obj"}, 0)
BraceTo(text) == LastIdx(text, {"close", "obj"})
BraceMatches(text) == BraceFrom(text) > 0 /\ BraceTo(text) >= BraceFrom(text)

\* jsonMatch is not null
JsonMatches(text) == FenceMatches(text) \/ BraceMatches(text)

\* jsonMatch[1] || jsonMatch[0]
JsonStr(text) ==
  IF FenceMatches(text)
  THEN IF FenceTo(text) > FenceFrom(text) + 1
       THEN SubSeq(text, FenceFrom(text) + 1, FenceTo(text) - 1)
       ELSE SubSeq(text, FenceFrom(text), FenceTo(text))
  ELSE SubSeq(text, BraceFrom(text), BraceTo(text))

\* JSON.parse(jsonStr) returns: the string is the text of one JSON object
JsonParses(str) == Len(str) = 1 /\ str[1].k = "obj"
JsonParse(str) == str[1].o

----------------------------------------------------------------------------
(* Replies of the generation call *)

ObjectA == [EmptyParsed EXCEPT !.confidence = JNum(9), !.summary = JStr("A")]
ObjectB == [EmptyParsed EXCEPT !.confidence = JNum(4), !.summary = JStr("B")]

TextTokens == {Prose, OpenBrace, CloseBrace, FenceJson, FenceEnd, ObjText(ObjectA), ObjText(ObjectB)}

MixedTexts == UNION {[1..n -> TextTokens] : n \in 1..MaxTextLen}

\* what the generation call gives back: a rejection, or a text
Responses ==
  {[kind |-> "unavailable", text |-> <<>>]}
  \cup {[kind |-> "text", text |-> <<ObjText(o)>>] : o \in ParsedObjects}
  \cup {[kind |-> "text", text |-> tx] : tx \in MixedTexts \cup {<<>>}}

NoResponse == [kind |-> "none", text |-> <<>>]
NoResult == [none |-> TRUE]
NoMetadata == Metadata(NoHistory, NoProfile)

----------------------------------------------------------------------------
(* The request body and its validation (routes/analyze.ts lines 65-84) *)

MetadataNull == [NoMetadata EXCEPT !.t = "null"]
MetadataNumber == [NoMetadata EXCEPT !.t = "num"]

\* req.body.metadata: absent, a string that is not JSON, or JSON text
BodyMissing == [k |-> "missing", value |-> NoMetadata]
BodyInvalid == [k |-> "invalid", value |-> NoMetadata]
BodyJson(md) == [k |-> "json", value |-> md]
NoBody == [k |-> "none", value |-> NoMetadata]

\* descriptions a client may send in place of a non-blank string
BadDescriptions ==
  {JUndef, JNull, JStr(""), JStr("   "), JNum(0), JNum(5), JBool(TRUE), JObj}

\* requests whose metadata has a bad shape
BadShapeRequests ==
  {MetadataNull, MetadataNumber}
  \cup {MetadataWith(dsc, NoHistory, NoProfile) : dsc \in BadDescriptions}
  \cup {Metadata(h, NoProfile) :
          h \in {HistoryString, HistoryObject, History(<<Qa("Q1", "yes"), QaNull>>)}}

Bodies ==
  {BodyMissing, BodyInvalid}
  \cup {BodyJson(md) : md \in Requests \cup BadShapeRequests}

\* String.prototype.trim on the descriptions of the model
Trim(str) == IF str \in {"", " ", "   "} THEN "" ELSE str

\* JSON.parse(metadataStr) throws
MetadataParseThrows(b) == b.k \in {"missing", "invalid"}

\* !metadata.description || metadata.description.trim().length === 0 raises a
\* TypeError: metadata is null, or the description is truthy and has no trim
DescriptionCheckThrows(md) ==
  \/ md.t = "null"
  \/ md.t = "obj" /\ Truthy(md.description) /\ md.description.t # "str"

\* the check of line 78 answers true
DescriptionMissing(md) ==
  \/ md.t = "num"
  \/ md.t = "obj" /\ ~Truthy(md.description)
  \/ md.t = "obj" /\ md.description.t = "str" /\ Trim(md.description.s) = ""

\* the JSON bodies the route sends
NoHttp == [status |-> 0, success |-> FALSE, error |-> "", hasData |-> FALSE]
HttpError(status, msg) == [status |-> status, success |-> FALSE, error |-> msg, hasData |-> FALSE]
HttpSuccess == [status |-> 200, success |-> TRUE, error |-> "", hasData |-> TRUE]
\* the catch of lines 114-123
AnalysisFailed == HttpError(500, "Analysis failed. Please try again.")

----------------------------------------------------------------------------
(* The uploaded files (routes/analyze.ts lines 11-63, utils/imageUtils.ts) *)

\* an uploaded file: its declared type, its size in MB, and whether sharp can
\* decode its bytes
File(mt, mb, dec) == [mimetype |-> mt, size |-> mb, decodable |-> dec]

Jpeg == File("image/jpeg", 1, TRUE)
UpperPng == File("IMAGE/PNG", LimitFileSize, TRUE)
Pdf == File("application/pdf", 1, FALSE)
Huge == File("image/jpeg", LimitFileSize + 1, TRUE)
Corrupt == File("image/png", 1, FALSE)
FileKinds == {Jpeg, UpperPng, Pdf, Huge, Corrupt}

\* the uploads of the model: Jpeg files, at most one of them replaced
FileLists ==
  {<<>>} \cup
  UNION {{[i \in 1..n |-> IF i = k THEN f ELSE Jpeg] : k \in 1..n, f \in FileKinds} :
           n \in 1..MaxUpload}

\* String.prototype.toLowerCase on the types of the model
ToLowerCase(str) == IF str = "IMAGE/PNG" THEN "image/png" ELSE str

validTypes ==
  {"image/jpeg", "image/jpg", "image/png", "image/webp", "image/heic", "image/heif"}

isValidImageType(mimeType) == ToLowerCase(mimeType) \in validTypes

isValidFileSize(sizeMB) == sizeMB <= maxMB

\* upload.array('images', 4) with limits {fileSize, files}: multer ends the
\* upload with an error, which Express hands to the error handler of the
\* application, and the route handler does not run
MulterRejects(fs) ==
  \/ Len(fs) > LimitFiles
  \/ \E i \in 1..Len(fs) : fs[i].size > LimitFileSize

\* the first file the loop of lines 46-62 refuses, 0 when there is none
FirstBadFile(fs) ==
  IF \E i \in 1..Len(fs) : ~isValidImageType(fs[i].mimetype) \/ ~isValidFileSize(fs[i].size)
  THEN CHOOSE i \in 1..Len(fs) :
         /\ ~isValidImageType(fs[i].mimetype) \/ ~isValidFileSize(fs[i].size)
         /\ \A j \in 1..(i - 1) :
              isValidImageType(fs[j].mimetype) /\ isValidFileSize(fs[j].size)
  ELSE 0

\* the answer of the image checks of lines 35-63, NoHttp when they pass
FileCheck(fs) ==
  IF Len(fs) > MaxImages
  THEN HttpError(400, "Maximum 4 images allowed")
  ELSE IF FirstBadFile(fs) = 0
  THEN NoHttp
  ELSE IF ~isValidImageType(fs[FirstBadFile(fs)].mimetype)
  THEN HttpError(400, "Invalid file type: " \o fs[FirstBadFile(fs)].mimetype
                        \o ". Only images are allowed.")
  ELSE HttpError(400, "File too large. Maximum 20MB per image.")

\* processImage settles: any exception of sharp becomes 'Failed to process image'
processImage(f) == IF f.decodable THEN "done" ELSE "failed"

\* Promise.all over the processImage calls: rejected with the first failure,
\* fulfilled when every call has returned
PromiseAllSettled(imgs) ==
  IF \A i \in 1..Len(imgs) : imgs[i] # "pending" THEN "fulfilled" ELSE "pending"

PromiseAll(imgs) ==
  IF \E i \in 1..Len(imgs) : imgs[i] = "failed" THEN "rejected"
  ELSE IF \A i \in 1..Len(imgs) : imgs[i] = "done" THEN "fulfilled"
  ELSE "pending"

IsDone(st) == st = "done"

\* imageBuffers: the buffers of the processed images
ImageBuffers(imgs) == SelectSeq(imgs, IsDone)

\* the error handler of the application
InternalServerError == HttpError(500, "Internal server error")

\* a request with well-formed metadata
ProbeBody == BodyJson(Metadata(NoHistory, NoProfile))

Upload(b, fs) == [body |-> b, files |-> fs]

\* the requests: every body without a file and with one file, and one body
\* with every list of files
Uploads ==
  {Upload(b, fs) : b \in Bodies, fs \in {<<>>, <<Jpeg>>}}
  \cup {Upload(ProbeBody, fs) : fs \in FileLists}

----------------------------------------------------------------------------
(* The parts handed to the model (lines 319-331) *)

\* the headings of SYSTEM_PROMPT, in order
SYSTEM_PROMPT ==
  <<"You are an expert home repair diagnostic assistant.",
    "DIAGNOSTIC APPROACH:",
    "---",
    "CONFIDENCE = How well can I diagnose this problem?",
    "Assess based on DIAGNOSTIC CLARITY, not how many questions were answered:",
    "---",
    "IF CONFIDENCE < 0.7 (need more diagnostic info), return:",
    "---",
    "IF CONFIDENCE >= 0.7 (can diagnose), return:",
    "VISUAL SUMMARY RULES:",
    "MATERIALS: 2-5 materials, 2-4 tools, 3-7 steps max.",
    "YOUTUBE SEARCH QUERY:",
    "PRO TYPE:",
    "SUGGESTED QUESTIONS:">>

TextPart(lines) == [kind |-> "text", lines |-> lines]
ImagePart == [kind |-> "inlineData", lines |-> <<>>]

\* one image part for each buffer, between the two texts
Parts(prompt, n) ==
  <<TextPart(SYSTEM_PROMPT)>> \o [i \in 1..n |-> ImagePart] \o <<TextPart(prompt)>>

----------------------------------------------------------------------------
(* The users routes, the chat route and the database: values *)

\* the requests in progress on the users routes
Clients == {"c1", "c2"}

\* SQL NULL in a column of the users table
NULL == "NULL"

\* no row: what a SELECT without a match leaves
NoRow == [id |-> 0, email |-> NULL, device_id |-> NULL]

\* a client without a request
UsrIdle ==
  [pc |-> "idle", route |-> "none", email |-> "", deviceId |-> "", userId |-> 0,
   called |-> "none", found |-> NoRow, http |-> NoHttp, data |-> NoRow]

\* no chat request
ChatIdle == [pc |-> "idle", calls |-> 0, http |-> NoHttp]

\* the email address and the device id the clients send
E1 == "a@x.io"
D1 == "device-1"

\* email || null, deviceId || null
OrNull(str) == IF str = "" THEN NULL ELSE str

\* a request on /users; the routes of one user name the first user
UsersRequest(rt, e, d) ==
  [route |-> rt, email |-> e, deviceId |-> d,
   userId |-> IF rt = "register" THEN 0 ELSE 1]

\* the requests on /users: register, and the four routes of the first user
UsersRequests ==
  {UsersRequest("register", e, d) : e \in {"", E1}, d \in {"", D1}}
  \cup {UsersRequest("email", e, "") : e \in {"", E1}}
  \cup {UsersRequest(rt, "", "") : rt \in {"profile", "saveAnalysis", "analyses"}}

\* a row of the users table (created_at and last_active_at are left out)
User(id, e, d) == [id |-> id, email |-> e, device_id |-> d]

\* SELECT * FROM users WHERE email = ? : users[0], NoRow for null
FirstByEmail(tbl, e) ==
  IF \E i \in 1..Len(tbl) : tbl[i].email = e
  THEN tbl[CHOOSE i \in 1..Len(tbl) :
             tbl[i].email = e /\ \A j \in 1..(i - 1) : tbl[j].email # e]
  ELSE NoRow

\* SELECT * FROM users WHERE device_id = ? : users[0], NoRow for null
FirstByDevice(tbl, d) ==
  IF \E i \in 1..Len(tbl) : tbl[i].device_id = d
  THEN tbl[CHOOSE i \in 1..Len(tbl) :
             tbl[i].device_id = d /\ \A j \in 1..(i - 1) : tbl[j].device_id # d]
  ELSE NoRow

\* SELECT * FROM users WHERE id = ? : rows[0]
FirstById(tbl, id) ==
  IF \E i \in 1..Len(tbl) : tbl[i].id = id
  THEN tbl[CHOOSE i \in 1..Len(tbl) : tbl[i].id = id]
  ELSE NoRow

\* the UNIQUE key on email refuses the value for the row (0: a new row)
EmailTaken(tbl, e, id) ==
  e # NULL /\ \E i \in 1..Len(tbl) : tbl[i].email = e /\ tbl[i].id # id

\* UPDATE users SET email = ? WHERE id = ?
SetEmail(tbl, id, e) ==
  [i \in 1..Len(tbl) |-> IF tbl[i].id = id THEN [tbl[i] EXCEPT !.email = e] ELSE tbl[i]]

\* UPDATE users SET device_id = ? WHERE id = ?
SetDevice(tbl, id, d) ==
  [i \in 1..Len(tbl) |-> IF tbl[i].id = id THEN [tbl[i] EXCEPT !.device_id = d] ELSE tbl[i]]

\* the foreign key of home_profiles and analyses: the user exists
UserExists(tbl, id) == \E i \in 1..Len(tbl) : tbl[i].id = id

\* the answer of requireDatabase
DatabaseDisabled == HttpError(503, "Database not configured. User features are disabled.")

\* res.json({success: true, message}) of the email route
HttpMessage == [status |-> 200, success |-> TRUE, error |-> "", hasData |-> FALSE]

\* the bodies of the chat route
ChatBody(m, dsc) == [newMessage |-> m, originalDescription |-> dsc]

ChatBodies ==
  {ChatBody("", "Leaking pipe"), ChatBody("   ", "Leaking pipe"),
   ChatBody("Can I use PVC cement?", ""), ChatBody("Can I use PVC cement?", "Leaking pipe")}

\* the uploads and the replies of the diagnose requests that run beside the
\* users and chat requests
ProbeUploads == {Upload(ProbeBody, <<Jpeg>>)}
ProbeResponses ==
  {[kind |-> "unavailable", text |-> <<>>],
   [kind |-> "text", text |-> <<ObjText(FullParsed)>>]}

----------------------------------------------------------------------------
(* The state machine of one diagnose request after the next *)

\* no diagnose request is in progress
DiagnoseIdle ==
  /\ pc = "idle"
  /\ body = NoBody
  /\ metadata = NoMetadata
  /\ hasImages = FALSE
  /\ userPrompt = <<>>
  /\ parts = <<>>
  /\ prevPrompt = <<>>
  /\ response = NoResponse
  /\ outcome = "none"
  /\ result = NoResult
  /\ http = NoHttp
  /\ files = <<>>
  /\ images = <<>>
  /\ calls = 0

\* the server has started and no request has arrived
ServerIdle ==
  /\ dbEnabled = TRUE
  /\ pool = FALSE
  /\ users = <<>>
  /\ usr = [c \in Clients |-> UsrIdle]
  /\ chat = ChatIdle

\* a process with the API key and without a database
Init ==
  /\ GEMINI_API_KEY = TRUE
  /\ DB_HOST = FALSE
  /\ DiagnoseIdle
  /\ ServerIdle

\* POST /analyze arrives with one of the uploads
Receive(uploads) ==
  /\ pc = "idle"
  /\ \E u \in uploads :
       /\ body' = u.body
       /\ files' = u.files
  /\ pc' = "upload"
  /\ metadata' = NoMetadata
  /\ hasImages' = FALSE
  /\ userPrompt' = <<>>
  /\ parts' = <<>>
  /\ prevPrompt' = <<>>
  /\ response' = NoResponse
  /\ outcome' = "none"
  /\ result' = NoResult
  /\ http' = NoHttp
  /\ images' = <<>>
  /\ calls' = 0
  /\ UNCHANGED serverVars

ReceiveRequest == Receive(Uploads)

\* the multer middleware reads the upload
ParseUpload ==
  /\ pc = "upload"
  /\ IF MulterRejects(files)
     THEN /\ http' = InternalServerError
          /\ pc' = "done"
     ELSE /\ http' = NoHttp
          /\ pc' = "route"
  /\ UNCHANGED <<body, metadata, hasImages, userPrompt, parts, prevPrompt, response,
                 outcome, result, files, images, calls>>
  /\ UNCHANGED serverVars

\* the route checks the files, parses and validates the metadata, and starts
\* processImage on every file
ValidateRequest ==
  /\ pc = "route"
  /\ IF FileCheck(files) # NoHttp
     THEN /\ http' = FileCheck(files)
          /\ pc' = "done"
          /\ UNCHANGED <<metadata, images>>
     ELSE IF MetadataParseThrows(body)
     THEN /\ http' = HttpError(400, "Invalid metadata format")
          /\ pc' = "done"
          /\ UNCHANGED <<metadata, images>>
     ELSE IF DescriptionCheckThrows(body.value)
     THEN /\ http' = AnalysisFailed
          /\ pc' = "done"
          /\ metadata' = body.value
          /\ UNCHANGED images
     ELSE IF DescriptionMissing(body.value)
     THEN /\ http' = HttpError(400, "Description is required")
          /\ pc' = "done"
          /\ metadata' = body.value
          /\ UNCHANGED images
     ELSE /\ http' = NoHttp
          /\ pc' = IF Len(files) > 0 THEN "images" ELSE "compose"
          /\ metadata' = body.value
          /\ images' = [i \in 1..Len(files) |-> "pending"]
  /\ UNCHANGED <<body, hasImages, userPrompt, parts, prevPrompt, response, outcome,
                 result, files, calls>>
  /\ UNCHANGED serverVars

\* one of the processImage calls settles; a call still running when the
\* request has been answered settles as well
ProcessImage ==
  /\ pc \in {"images", "done"}
  /\ \E i \in 1..Len(images) :
       /\ images[i] = "pending"
       /\ images' = [images EXCEPT ![i] = processImage(files[i])]
  /\ UNCHANGED <<pc, body, metadata, hasImages, userPrompt, parts, prevPrompt, response,
                 outcome, result, http, files, calls>>
  /\ UNCHANGED serverVars

\* Promise.all settles and the route goes on, or its catch answers
AwaitImages ==
  /\ pc = "images"
  /\ PromiseAll(images) # "pending"
  /\ IF PromiseAll(images) = "rejected"
     THEN /\ http' = AnalysisFailed
          /\ pc' = "done"
     ELSE /\ http' = NoHttp
          /\ pc' = "compose"
  /\ UNCHANGED <<body, metadata, hasImages, userPrompt, parts, prevPrompt, response,
                 outcome, result, files, images, calls>>
  /\ UNCHANGED serverVars

\* analyzeRepair up to the generation call: the client, the user prompt and
\* the parts are built; an exception of getGenAI or of buildUserPrompt rejects
\* analyzeRepair and reaches the catch of the route
ComposePrompt ==
  /\ pc = "compose"
  /\ IF ~GEMINI_API_KEY \/ buildUserPromptThrows(metadata)
     THEN /\ outcome' = "error"
          /\ http' = AnalysisFailed
          /\ pc' = "done"
          /\ UNCHANGED <<hasImages, userPrompt, parts>>
     ELSE /\ hasImages' = (Len(ImageBuffers(images)) > 0)
          /\ userPrompt' = buildUserPrompt(metadata, Len(ImageBuffers(images)) > 0)
          /\ parts' = Parts(buildUserPrompt(metadata, Len(ImageBuffers(images)) > 0),
                            Len(ImageBuffers(images)))
          /\ pc' = "generate"
          /\ UNCHANGED <<outcome, http>>
  /\ UNCHANGED <<body, metadata, prevPrompt, response, result, files, images, calls>>
  /\ UNCHANGED serverVars

\* model.generateContent(parts) is called and settles
Generate(responses) ==
  /\ pc = "generate"
  /\ \E r \in responses : response' = r
  /\ calls' = calls + 1
  /\ pc' = "parse"
  /\ UNCHANGED <<body, metadata, hasImages, userPrompt, parts, prevPrompt, outcome,
                 result, http, files, images>>
  /\ UNCHANGED serverVars

GenerateContent == Generate(Responses)

\* the rest of the try block of analyzeRepair and its catch, then the
\* response of the route
FinishAnalyze ==
  /\ pc = "parse"
  /\ IF /\ response.kind = "text"
        /\ JsonMatches(response.text)
        /\ JsonParses(JsonStr(response.text))
        /\ ~NormalizeThrows(JsonParse(JsonStr(response.text)))
     THEN /\ outcome' = "ok"
          /\ result' = Normalize(JsonParse(JsonStr(response.text)))
          /\ http' = HttpSuccess
     ELSE /\ outcome' = "error"
          /\ result' = NoResult
          /\ http' = AnalysisFailed
  /\ pc' = "done"
  /\ UNCHANGED <<body, metadata, hasImages, userPrompt, parts, prevPrompt, response,
                 files, images, calls>>
  /\ UNCHANGED serverVars

\* the response is sent; the server keeps nothing of the request
Respond ==
  /\ pc = "done"
  /\ pc' = "idle"
  /\ body' = NoBody
  /\ metadata' = NoMetadata
  /\ hasImages' = FALSE
  /\ userPrompt' = <<>>
  /\ parts' = <<>>
  /\ prevPrompt' = <<>>
  /\ response' = NoResponse
  /\ outcome' = "none"
  /\ result' = NoResult
  /\ http' = NoHttp
  /\ files' = <<>>
  /\ images' = <<>>
  /\ calls' = 0
  /\ UNCHANGED serverVars

AllSkipped(h) == [h EXCEPT !.items = [i \in 1..Len(h.items) |-> [h.items[i] EXCEPT !.answer = ""]]]

\* the caller sends the same request again with every answer left empty;
\* prevPrompt remembers the prompt the first request was given
ResubmitSkipped ==
  /\ pc = "done"
  /\ prevPrompt = <<>>
  /\ userPrompt # <<>>
  /\ HasConversation(metadata)
  /\ AllSkipped(metadata.conversationHistory) # metadata.conversationHistory
  /\ body' = BodyJson([metadata EXCEPT !.conversationHistory = AllSkipped(@)])
  /\ prevPrompt' = userPrompt
  /\ pc' = "upload"
  /\ metadata' = NoMetadata
  /\ hasImages' = FALSE
  /\ userPrompt' = <<>>
  /\ parts' = <<>>
  /\ response' = NoResponse
  /\ outcome' = "none"
  /\ result' = NoResult
  /\ http' = NoHttp
  /\ images' = <<>>
  /\ calls' = 0
  /\ UNCHANGED files
  /\ UNCHANGED serverVars

Next ==
  \/ ReceiveRequest
  \/ ParseUpload
  \/ ValidateRequest
  \/ ProcessImage
  \/ AwaitImages
  \/ ComposePrompt
  \/ GenerateContent
  \/ FinishAnalyze
  \/ Respond
  \/ ResubmitSkipped

Spec == Init /\ [][Next]_vars

----------------------------------------------------------------------------
(* The users routes (routes/users.ts) and the database (database/db.ts) *)

isDatabaseEnabledAlways == TRUE

\* dbEnabled && !!process.env.DB_HOST
isDatabaseEnabled == dbEnabled /\ DB_HOST

\* getPool throws 'Database not configured'
getPoolThrows == ~DB_HOST

\* the effect of getPool on its module: dbEnabled is cleared when it throws,
\* the pool is created when it does not
GetPool ==
  /\ dbEnabled' = (IF getPoolThrows THEN FALSE ELSE dbEnabled)
  /\ pool' = (IF getPoolThrows THEN pool ELSE TRUE)

\* register requests that may still insert a row
InFlightRegisters ==
  Cardinality({c \in Clients : usr[c].route = "register" /\ usr[c].pc \notin {"idle", "done"}})

\* the request of client c moves to position p
Goto(c, p) == usr' = [usr EXCEPT ![c].pc = p]

\* the request of client c is answered
Answer(c, h, row) ==
  usr' = [usr EXCEPT ![c].pc = "done", ![c].http = h, ![c].data = row, ![c].found = NoRow]

\* a request arrives on /users and meets router.use(requireDatabase)
RequireDatabase ==
  /\ \E c \in Clients :
       /\ usr[c].pc = "idle"
       /\ \E rq \in UsersRequests :
            /\ rq.route = "register" => Len(users) + InFlightRegisters < MaxUsers
            /\ usr' = [usr EXCEPT ![c] =
                         IF ~isDatabaseEnabled
                         THEN [UsrIdle EXCEPT !.pc = "done", !.route = rq.route,
                                              !.http = DatabaseDisabled]
                         ELSE [UsrIdle EXCEPT !.pc = "handler", !.route = rq.route,
                                              !.email = rq.email,
                                              !.deviceId = rq.deviceId,
                                              !.userId = rq.userId]]
  /\ UNCHANGED <<diagVars, envVars, dbVars, chat>>

\* POST /register up to the first query of findOrCreateUser
RegisterHandler ==
  /\ \E c \in Clients :
       /\ usr[c].pc = "handler"
       /\ usr[c].route = "register"
       /\ IF usr[c].email = "" /\ usr[c].deviceId = ""
          THEN /\ Answer(c, HttpError(400, "Either email or deviceId is required"), NoRow)
               /\ UNCHANGED <<dbEnabled, pool>>
          ELSE /\ GetPool
               /\ IF getPoolThrows
                  THEN usr' = [usr EXCEPT ![c].pc = "done",
                                          ![c].called = "findOrCreateUser",
                                          ![c].http = HttpError(500, "Failed to register user")]
                  ELSE usr' = [usr EXCEPT ![c].pc = IF usr[c].email # "" THEN "byEmail"
                                                     ELSE "byDevice",
                                          ![c].called = "findOrCreateUser"]
  /\ UNCHANGED <<diagVars, envVars, users, chat>>

\* findUserByEmail answers (lines 210-219)
SelectByEmail ==
  /\ \E c \in Clients :
       /\ usr[c].pc = "byEmail"
       /\ LET row == FirstByEmail(users, usr[c].email)
          IN IF row # NoRow
             THEN usr' = [usr EXCEPT ![c].found = row,
                                     ![c].pc = IF /\ usr[c].deviceId # ""
                                                  /\ row.device_id # usr[c].deviceId
                                               THEN "updDevice" ELSE "touch"]
             ELSE Goto(c, IF usr[c].deviceId # "" THEN "byDevice" ELSE "insert")
  /\ UNCHANGED <<diagVars, envVars, dbVars, chat>>

\* UPDATE users SET device_id (line 214)
UpdateDevice ==
  /\ \E c \in Clients :
       /\ usr[c].pc = "updDevice"
       /\ users' = SetDevice(users, usr[c].found.id, usr[c].deviceId)
       /\ Goto(c, "touch")
  /\ UNCHANGED <<diagVars, envVars, dbEnabled, pool, chat>>

\* findUserByDeviceId answers (lines 223-234)
SelectByDevice ==
  /\ \E c \in Clients :
       /\ usr[c].pc = "byDevice"
       /\ LET row == FirstByDevice(users, usr[c].deviceId)
          IN IF row # NoRow
             THEN usr' = [usr EXCEPT ![c].found = row,
                                     ![c].pc = IF usr[c].email # "" /\ row.email = NULL
                                               THEN "updEmail" ELSE "touch"]
             ELSE Goto(c, "insert")
  /\ UNCHANGED <<diagVars, envVars, dbVars, chat>>

\* UPDATE users SET email (line 228); a duplicate email rejects the query
UpdateEmail ==
  /\ \E c \in Clients :
       /\ usr[c].pc = "updEmail"
       /\ IF EmailTaken(users, usr[c].email, usr[c].found.id)
          THEN /\ Answer(c, HttpError(500, "Failed to register user"), NoRow)
               /\ UNCHANGED users
          ELSE /\ users' = SetEmail(users, usr[c].found.id, usr[c].email)
               /\ Goto(c, "touch")
  /\ UNCHANGED <<diagVars, envVars, dbEnabled, pool, chat>>

\* UPDATE users SET last_active_at (lines 217 and 231), then the row read
\* before is returned and the route answers
TouchUser ==
  /\ \E c \in Clients :
       /\ usr[c].pc = "touch"
       /\ Answer(c, HttpSuccess, usr[c].found)
  /\ UNCHANGED <<diagVars, envVars, dbVars, chat>>

\* createUser inserts the row under a fresh id (lines 181-187)
InsertUser ==
  /\ \E c \in Clients :
       /\ usr[c].pc = "insert"
       /\ IF EmailTaken(users, OrNull(usr[c].email), 0)
          THEN /\ Answer(c, HttpError(500, "Failed to register user"), NoRow)
               /\ UNCHANGED users
          ELSE /\ users' = Append(users, User(Len(users) + 1, OrNull(usr[c].email),
                                              OrNull(usr[c].deviceId)))
               /\ usr' = [usr EXCEPT ![c].pc = "reselect",
                                     ![c].found = [NoRow EXCEPT !.id = Len(users) + 1]]
  /\ UNCHANGED <<diagVars, envVars, dbEnabled, pool, chat>>

\* createUser reads the row back (lines 189-190) and the route answers
ReselectUser ==
  /\ \E c \in Clients :
       /\ usr[c].pc = "reselect"
       /\ Answer(c, HttpSuccess, FirstById(users, usr[c].found.id))
  /\ UNCHANGED <<diagVars, envVars, dbVars, chat>>

\* PUT /:userId/email
EmailHandler ==
  /\ \E c \in Clients :
       /\ usr[c].pc = "handler"
       /\ usr[c].route = "email"
       /\ IF usr[c].email = ""
          THEN /\ Answer(c, HttpError(400, "Email is required"), NoRow)
               /\ UNCHANGED dbVars
          ELSE /\ GetPool
               /\ IF getPoolThrows \/ EmailTaken(users, usr[c].email, usr[c].userId)
                  THEN /\ usr' = [usr EXCEPT ![c].pc = "done",
                                             ![c].called = "updateUserEmail",
                                             ![c].http = HttpError(500, "Failed to update email")]
                       /\ UNCHANGED users
                  ELSE /\ usr' = [usr EXCEPT ![c].pc = "done",
                                             ![c].called = "updateUserEmail",
                                             ![c].http = HttpMessage]
                       /\ users' = SetEmail(users, usr[c].userId, usr[c].email)
  /\ UNCHANGED <<diagVars, envVars, chat>>

\* POST /:userId/profile: the rows of home_profiles need their user
ProfileHandler ==
  /\ \E c \in Clients :
       /\ usr[c].pc = "handler"
       /\ usr[c].route = "profile"
       /\ GetPool
       /\ usr' = [usr EXCEPT ![c].pc = "done",
                             ![c].called = "saveHomeProfile",
                             ![c].http = IF getPoolThrows \/ ~UserExists(users, usr[c].userId)
                                         THEN HttpError(500, "Failed to save profile")
                                         ELSE HttpSuccess]
  /\ UNCHANGED <<diagVars, envVars, users, chat>>

\* POST /:userId/analyses: the rows of analyses need their user
SaveAnalysisHandler ==
  /\ \E c \in Clients :
       /\ usr[c].pc = "handler"
       /\ usr[c].route = "saveAnalysis"
       /\ GetPool
       /\ usr' = [usr EXCEPT ![c].pc = "done",
                             ![c].called = "saveAnalysis",
                             ![c].http = IF getPoolThrows \/ ~UserExists(users, usr[c].userId)
                                         THEN HttpError(500, "Failed to save analysis")
                                         ELSE HttpSuccess]
  /\ UNCHANGED <<diagVars, envVars, users, chat>>

\* GET /:userId/analyses
AnalysesHandler ==
  /\ \E c \in Clients :
       /\ usr[c].pc = "handler"
       /\ usr[c].route = "analyses"
       /\ GetPool
       /\ usr' = [usr EXCEPT ![c].pc = "done",
                             ![c].called = "getUserAnalyses",
                             ![c].http = IF getPoolThrows
                                         THEN HttpError(500, "Failed to get analyses")
                                         ELSE HttpSuccess]
  /\ UNCHANGED <<diagVars, envVars, users, chat>>

\* the response is sent
UsersRespond ==
  /\ \E c \in Clients :
       /\ usr[c].pc = "done"
       /\ usr' = [usr EXCEPT ![c] = UsrIdle]
  /\ UNCHANGED <<diagVars, envVars, dbVars, chat>>

----------------------------------------------------------------------------
(* The chat route (routes/chat.ts, services/chatService.ts) *)

\* POST /chat arrives: the route validates the body, and chatWithExpert
\* builds its prompt and calls the model
ChatHandler ==
  /\ chat.pc = "idle"
  /\ \E b \in ChatBodies :
       IF b.newMessage = "" \/ Trim(b.newMessage) = ""
       THEN chat' = [ChatIdle EXCEPT !.pc = "done", !.http = HttpError(400, "Message is required")]
       ELSE IF b.originalDescription = ""
       THEN chat' = [ChatIdle EXCEPT !.pc = "done",
                                     !.http = HttpError(400, "Original description is required")]
       ELSE IF ~GEMINI_API_KEY
       THEN chat' = [ChatIdle EXCEPT !.pc = "done",
                                     !.http = HttpError(500, "Failed to process chat message")]
       ELSE chat' = [ChatIdle EXCEPT !.pc = "calling"]
  /\ UNCHANGED <<diagVars, envVars, dbVars, usr>>

\* model.generateContent(prompt) settles and the route answers
ChatGenerate ==
  /\ chat.pc = "calling"
  /\ \E ok \in BOOLEAN :
       chat' = [chat EXCEPT !.pc = "done", !.calls = @ + 1,
                            !.http = IF ok THEN HttpSuccess
                                     ELSE HttpError(500, "Failed to process chat message")]
  /\ UNCHANGED <<diagVars, envVars, dbVars, usr>>

\* the response is sent
ChatRespond ==
  /\ chat.pc = "done"
  /\ chat' = ChatIdle
  /\ UNCHANGED <<diagVars, envVars, dbVars, usr>>

----------------------------------------------------------------------------
(* The server: diagnose, chat and users requests side by side *)

\* a process with or without the API key and the database
ServerInit ==
  /\ GEMINI_API_KEY \in BOOLEAN
  /\ DB_HOST \in BOOLEAN
  /\ DiagnoseIdle
  /\ ServerIdle

ReceiveProbe == Receive(ProbeUploads)

GenerateProbe == Generate(ProbeResponses)

ServerNext ==
  \/ ReceiveProbe
  \/ ParseUpload
  \/ ValidateRequest
  \/ ProcessImage
  \/ AwaitImages
  \/ ComposePrompt
  \/ GenerateProbe
  \/ FinishAnalyze
  \/ Respond
  \/ ChatHandler
  \/ ChatGenerate
  \/ ChatRespond
  \/ RequireDatabase
  \/ RegisterHandler
  \/ SelectByEmail
  \/ UpdateDevice
  \/ SelectByDevice
  \/ UpdateEmail
  \/ TouchUser
  \/ InsertUser
  \/ ReselectUser
  \/ EmailHandler
  \/ ProfileHandler
  \/ SaveAnalysisHandler
  \/ AnalysesHandler
  \/ UsersRespond

ServerSpec == ServerInit /\ [][ServerNext]_vars

----------------------------------------------------------------------------
(* Vocabulary of the properties *)

\* analyzeRepair has returned an AnalysisResult
Returned == pc = "done" /\ outcome = "ok"

\* the object JSON.parse gave analyzeRepair
parsed == JsonParse(JsonStr(response.text))

\* buildUserPrompt has run for the request at hand
PromptBuilt == userPrompt # <<>>

\* the round instruction of a built prompt: what stands between the
\* separator and the closing line
InstructionOf(prompt) ==
  LET sep == CHOOSE i \in 1..Len(prompt) : prompt[i] = Separator
  IN SubSeq(prompt, sep + 1, Len(prompt) - 1)

ModeOf(instr) ==
  IF Len(instr) < 2 THEN "none"
  ELSE CASE instr[2] = "Assess your diagnostic confidence." -> "Initial"
         [] instr[2] = "Review ALL information above (description + answers)." -> "Continuation"
         [] instr[2] = "Provide your best analysis now based on all available information." -> "Final"
         [] OTHER -> "none"

ForbidsQuestions(instr) == \E i \in 1..Len(instr) : instr[i] = "Do NOT ask more questions."

CautionsAgainstAnswerCount(instr) ==
  \E i \in 1..Len(instr) :
    instr[i] = "Assess your DIAGNOSTIC CONFIDENCE based on how clearly you can identify the problem - not just because questions were answered."

HistLen == IF metadata.conversationHistory.present THEN Len(metadata.conversationHistory.items) ELSE 0

\* r = ceil(n/3) + 1, stated without the division
IsRoundOf(r, n) == 3 * (r - 2) < n /\ n <= 3 * (r - 1)

----------------------------------------------------------------------------
(* C1 *)

C2_NeedsMoreInfoIsOr ==
  Returned =>
    (result.needsMoreInfo <=>
       (parsed.needsMoreInfo.t = "bool" /\ parsed.needsMoreInfo.b)
       \/ (~result.confidence.nan /\ result.confidence.v < 7))

C2_Witness ==
  /\ Returned
  /\ parsed.needsMoreInfo = JBool(TRUE)
  /\ NumGe(result.confidence, 7)
  /\ result.needsMoreInfo

(* C3 *)

\* C3 as stated: a returned result has a non-empty questions sequence only if
\* its needsMoreInfo is true.
C3_Original ==
  Returned => (result.questions # <<>> => result.needsMoreInfo)

(* C4 *)

\* C4 as stated: in a returned result with needsMoreInfo = true the
\* full-analysis fields are empty.
C4_Original ==
  Returned /\ result.needsMoreInfo =>
    /\ result.problemShort = JStr("")
    /\ result.materials = <<>>
    /\ result.tools = <<>>
    /\ result.steps = Arr(<<>>)
    /\ result.warnings = Arr(<<>>)
    /\ result.callAProIf = Arr(<<>>)
    /\ result.youtubeSearchQuery = JStr("")
    /\ result.proType = JStr("")
    /\ result.suggestedQuestions = <<>>

(* C5 *)

\* C5 as stated: a numeric confidence c of the model output is returned as
\* min(1, max(0, c)), a value of exactly 0 included.
C5_Original ==
  Returned /\ parsed.confidence.t = "num" =>
    LET c == parsed.confidence.n
    IN result.confidence = Num(IF c < 0 THEN 0 ELSE IF c > 10 THEN 10 ELSE c)

(* C6 *)

\* C6 as stated: the returned confidence is a number in [0,1], and it is 0.5
\* when the model output has no confidence or a non-numeric one.
C6_Original ==
  Returned =>
    /\ ~result.confidence.nan
    /\ result.confidence.v \in 0..10
    /\ (parsed.confidence.t # "num" => result.confidence = Num(5))

(* C7 *)

\* C7: confidenceLevel is 'high' for a returned confidence of at least 0.8,
\* 'medium' from 0.6 up to 0.8 and 'low' otherwise, whatever level the model
\* wrote.
C7_LevelFromConfidence ==
  Returned =>
    LET c == result.confidence
    IN result.confidenceLevel =
         (IF ~c.nan /\ c.v >= 8 THEN "high"
          ELSE IF ~c.nan /\ c.v >= 6 /\ c.v < 8 THEN "medium"
          ELSE "low")

C7_Witness ==
  /\ Returned
  /\ parsed.confidenceLevel = JStr("low")
  /\ result.confidence = Num(8)
  /\ result.confidenceLevel = "high"

(* C8 *)

\* C8: the round written into the instruction is ceil(n/3) + 1 for a history
\* of n entries, and the final instruction is chosen exactly for n >= 4.
C8_RoundFromLength ==
  PromptBuilt =>
    LET instr == InstructionOf(userPrompt)
        r == CHOOSE k \in 1..(HistLen + 2) : IsRoundOf(k, HistLen) \/ (HistLen = 0 /\ k = 1)
    IN /\ instr[1] \in {"Round " \o ToString(r) \o "/3.",
                        "This is round " \o ToString(r) \o "/3 (final)."}
       /\ (ModeOf(instr) = "Final" <=> r >= 3)
       /\ (r >= 3 <=> HistLen >= 4)

C8_Witness ==
  /\ PromptBuilt
  /\ HistLen = 9
  /\ InstructionOf(userPrompt)[1] = "This is round 4/3 (final)."

(* C9 *)

\* C9: the instruction is the Initial one iff the history is absent or empty,
\* the Continuation one iff the history is non-empty and the round below 3,
\* the Final one iff the round is at least 3; only the Final one forbids
\* further questions.
C9_ExactlyOneMode ==
  PromptBuilt =>
    LET instr == InstructionOf(userPrompt)
        mode == ModeOf(instr)
    IN /\ mode \in {"Initial", "Continuation", "Final"}
       /\ (mode = "Initial" <=> HistLen = 0)
       /\ (mode = "Continuation" <=> HistLen > 0 /\ \E r \in 1..2 : IsRoundOf(r, HistLen))
       /\ (mode = "Final" <=> \E r \in 3..(HistLen + 2) : IsRoundOf(r, HistLen))
       /\ (ForbidsQuestions(instr) <=> mode = "Final")

C9_Witness ==
  /\ PromptBuilt
  /\ HistLen = 4
  /\ ModeOf(InstructionOf(userPrompt)) = "Final"
  /\ ForbidsQuestions(InstructionOf(userPrompt))

(* C10 *)

\* C10 as stated: the request with every answer skipped gets the instruction
\* of the request with real answers, and for every non-empty history the
\* instruction cautions that answered questions alone do not raise confidence.
C10_Original ==
  PromptBuilt =>
    /\ (prevPrompt # <<>> => InstructionOf(userPrompt) = InstructionOf(prevPrompt))
    /\ (HistLen > 0 => CautionsAgainstAnswerCount(InstructionOf(userPrompt)))

\* C10 (amended): the request with every answer skipped gets the mode and the
\* instruction of the request with real answers; the instruction carries the
\* caution whenever it is the Continuation one (history non-empty, round
\* below 3), and every prompt closes with the line that bases confidence on
\* diagnostic clarity.
C10_SkippedAnswersSameInstruction ==
  PromptBuilt =>
    LET instr == InstructionOf(userPrompt)
    IN /\ (prevPrompt # <<>> =>
             /\ instr = InstructionOf(prevPrompt)
             /\ ModeOf(instr) = ModeOf(InstructionOf(prevPrompt)))
       /\ (HistLen \in 1..3 => CautionsAgainstAnswerCount(instr))
       /\ userPrompt[Len(userPrompt)] = ConfidenceBasis

C10_Witness ==
  /\ PromptBuilt
  /\ prevPrompt # <<>>
  /\ HistLen = 2
  /\ \A i \in 1..HistLen : metadata.conversationHistory.items[i].answer = ""
  /\ CautionsAgainstAnswerCount(InstructionOf(userPrompt))

----------------------------------------------------------------------------
(* C11 *)

\* the request has been answered after the model replied with a text
Replied == pc = "done" /\ response.kind = "text"

HasFence(text) == \E i \in 1..Len(text) : text[i].k \in {"fence", "endfence"}

\* C11 as stated: the content of a json fence is taken when there is one, and
\* otherwise the first top-level {...} span, so that an object followed by
\* further text with braces or a second object is still the one returned.
C11_Original ==
  Replied =>
    LET tx == response.text
        first == FirstIdx(tx, {"open", "obj"}, 0)
    IN /\ (/\ Len(tx) = 3
           /\ tx[1] = FenceJson /\ tx[2].k = "obj" /\ tx[3] = FenceEnd
           => outcome = "ok" /\ result.summary = tx[2].o.summary)
       /\ (/\ ~HasFence(tx)
           /\ first > 0
           /\ tx[first] \in {ObjText(ObjectA), ObjText(ObjectB)}
           => outcome = "ok" /\ result.summary = tx[first].o.summary)

(* C12 *)

\* C12 as stated: analyzeRepair returns a result whenever a well-formed JSON
\* object was located in the text, and fails only when none can be located.
C12_Original ==
  Replied =>
    /\ (JsonMatches(response.text) /\ JsonParses(JsonStr(response.text)) => outcome = "ok")
    /\ (outcome = "error" => ~JsonMatches(response.text))

(* C13 *)

FreeTextKeys ==
  {"problemShort", "estimatedTime", "estimatedCost", "proEstimate", "cureTimeNotes",
   "youtubeSearchQuery", "proType"}

PassedArrayKeys == {"immediateActions", "steps", "warnings", "callAProIf"}

MappedArrayKeys == {"questions", "materials", "tools", "suggestedQuestions"}

\* the fallbacks of every key but summary
FallbacksButSummary ==
  /\ DOMAIN result = AnalysisResultKeys
  /\ \A k \in FreeTextKeys : parsed[k] = JUndef => result[k] = JStr("")
  /\ (parsed.diyFriendly = JUndef => result.diyFriendly = JStr("maybe"))
  /\ (parsed.difficulty = JUndef => result.difficulty = JStr("medium"))
  /\ \A k \in PassedArrayKeys : parsed[k] = ArrUndef => result[k] = Arr(<<>>)
  /\ \A k \in MappedArrayKeys : parsed[k] = ArrUndef => result[k] = <<>>
  /\ (parsed = [EmptyParsed EXCEPT !.confidence = JNum(9)] =>
        /\ result.confidenceLevel = "high"
        /\ ~result.needsMoreInfo
        /\ result.materials = <<>> /\ result.tools = <<>> /\ result.steps = Arr(<<>>))

\* C13 as stated: every key is present and a missing key gets its fallback,
\* the empty string for every free-text field, summary included.
C13_Original ==
  Returned =>
    /\ FallbacksButSummary
    /\ (parsed.summary = JUndef => result.summary = JStr(""))

\* C13 (amended): every key of AnalysisResult is present and a key missing
\* from the model output gets its fallback: the empty string for the
\* free-text fields other than summary, 'Unable to determine issue' for
\* summary, 'maybe' for diyFriendly, 'medium' for difficulty, the empty
\* sequence for array fields; {"confidence":0.9} gives level 'high',
\* needsMoreInfo false and empty materials, tools and steps.
C13_Fallbacks ==
  Returned =>
    /\ FallbacksButSummary
    /\ (parsed.summary = JUndef => result.summary = JStr("Unable to determine issue"))

C13_Witness ==
  /\ Returned
  /\ parsed = [EmptyParsed EXCEPT !.confidence = JNum(9)]
  /\ result.difficulty = JStr("medium")
  /\ result.summary = JStr("Unable to determine issue")

(* C14 *)

\* C14 as stated: diyFriendly, difficulty and damage.severity of a returned
\* result are values of their enumerations.
C14_Original ==
  Returned =>
    /\ result.diyFriendly \in {JStr("yes"), JStr("maybe"), JStr("no")}
    /\ result.difficulty \in {JStr("easy"), JStr("medium"), JStr("hard")}
    /\ result.damage.severity \in {"minor", "moderate", "severe", "critical"}

(* C15 *)

\* C15: the tools of a returned result are the entries of the model's tools
\* array in order, a string s as {name: s, description: ''}, an object as its
\* name and description with '' for a missing key.
C15_ToolsCanonical ==
  Returned /\ parsed.tools.t = "arr" =>
    /\ Len(result.tools) = Len(parsed.tools.items)
    /\ \A i \in 1..Len(result.tools) :
         LET src == parsed.tools.items[i]
             out == result.tools[i]
         IN /\ {"name", "description"} \subseteq DOMAIN out
            /\ (src.t = "str" => out.name = JStr(src.s) /\ out.description = JStr(""))
            /\ (src.t = "obj" =>
                  /\ out.name = (IF src.name = JUndef THEN JStr("") ELSE src.name)
                  /\ out.description =
                       (IF src.description = JUndef THEN JStr("") ELSE src.description))

C15_Witness ==
  /\ Returned
  /\ Len(result.tools) = 3
  /\ parsed.tools.items[1].t = "obj" /\ parsed.tools.items[1].name = JUndef
  /\ result.tools[1].name = JStr("")
  /\ parsed.tools.items[3].t = "str"

(* C16 *)

\* C16 as stated: every element of suggestedQuestions of a returned result is
\* a non-empty string.
C16_Original ==
  Returned =>
    \A i \in 1..Len(result.suggestedQuestions) :
      result.suggestedQuestions[i].t = "str" /\ result.suggestedQuestions[i].s # ""

(* C17 *)

\* C17 as stated: a returned result with needsMoreInfo = true holds two or
\* three questions.
C17_Original ==
  Returned /\ result.needsMoreInfo => Len(result.questions) \in 2..3

(* C18 *)

\* least index of a line that is one of the given lines, 0 if there is none
LineIdx(lines, which) ==
  IF \E i \in 1..Len(lines) : lines[i] \in which
  THEN CHOOSE i \in 1..Len(lines) :
         lines[i] \in which /\ \A j \in 1..(i - 1) : lines[j] \notin which
  ELSE 0

\* the text part that closes the parts handed to the model
LastText == parts[Len(parts)].lines
NoteIdx == LineIdx(LastText, {"(User provided photos)", "(No photos provided)"})
ProfileIdx == LineIdx(LastText, {"HOME PROFILE:"})
HistoryIdx == LineIdx(LastText, {"PREVIOUS CONVERSATION:"})
InstructionIdx == LineIdx(LastText, {Separator}) + 1

\* C18 as stated: system instructions, then the home-profile block, then the
\* prior-Q&A block, then the image-presence note, then the round instruction.
C18_Original ==
  parts # <<>> =>
    /\ parts[1] = TextPart(SYSTEM_PROMPT)
    /\ (ProfileIdx > 0 /\ HistoryIdx > 0 => ProfileIdx < HistoryIdx)
    /\ (ProfileIdx > 0 => ProfileIdx < NoteIdx)
    /\ (HistoryIdx > 0 => HistoryIdx < NoteIdx)
    /\ NoteIdx > 0 /\ NoteIdx < InstructionIdx

\* C18 (amended): the parts are the system instructions, then the images, then
\* one text holding, in this order, the description, the image-presence note,
\* the home-profile block if present, the prior-Q&A block if present and the
\* round instruction; an absent block leaves the order of the others as it is.
C18_SectionOrder ==
  parts # <<>> =>
    /\ parts[1] = TextPart(SYSTEM_PROMPT)
    /\ \A i \in 2..(Len(parts) - 1) : parts[i].kind = "inlineData"
    /\ parts[Len(parts)] = TextPart(userPrompt)
    /\ LastText[1] = "USER'S PROBLEM:"
    /\ NoteIdx = 3
    /\ (ProfileIdx > 0 <=>
          \E k \in {"homeType", "yearBuilt", "pipeType", "waterHeaterType", "hvacType",
                    "roofType", "mainFlooring"} : metadata.homeProfile[k] # "")
    /\ (HistoryIdx > 0 <=> HistLen > 0)
    /\ (ProfileIdx > 0 => NoteIdx < ProfileIdx /\ ProfileIdx < InstructionIdx)
    /\ (HistoryIdx > 0 => NoteIdx < HistoryIdx /\ HistoryIdx < InstructionIdx)
    /\ (ProfileIdx > 0 /\ HistoryIdx > 0 => ProfileIdx < HistoryIdx)
    /\ InstructionOf(LastText) = InstructionOf(userPrompt)
    /\ InstructionIdx > NoteIdx + 1
    /\ ModeOf(SubSeq(LastText, InstructionIdx, Len(LastText) - 1)) # "none"

C18_Witness ==
  /\ parts # <<>>
  /\ Len(parts) = 3
  /\ ProfileIdx > 0
  /\ HistoryIdx > ProfileIdx

(* C19 *)

\* no JSON object can be located in the model's text
Malformed == response.kind = "text" /\ ~JsonMatches(response.text)

\* C19 as stated: a text without a locatable JSON object ends the request with
\* a failure that differs from the one of a failed generation call, and
\* neither case returns a result.
C19_Original ==
  pc = "done" =>
    /\ (response.kind = "unavailable" => ~http.success /\ ~http.hasData)
    /\ (Malformed => ~http.success /\ ~http.hasData /\ http # AnalysisFailed)

(* C20 *)

\* the metadata of the request is missing, is not JSON, or has a bad shape
BadMetadata ==
  \/ body.k \in {"missing", "invalid"}
  \/ /\ body.k = "json"
     /\ \/ body.value.t # "obj"
        \/ body.value.description.t # "str"
        \/ body.value.description.s \in {"", "   "}
        \/ /\ body.value.conversationHistory.present
           /\ \/ body.value.conversationHistory.t # "arr"
              \/ \E i \in 1..Len(body.value.conversationHistory.items) :
                   body.value.conversationHistory.items[i].t # "obj"

\* C20 as stated: a request with missing, unparsable or badly shaped metadata
\* is answered 400 and never with the generic analysis failure.
C20_Original ==
  pc = "done" /\ BadMetadata => http.status = 400 /\ http # AnalysisFailed

(* C21 *)

\* the request got past multer and the checks of the route
PassedValidation ==
  /\ ~MulterRejects(files)
  /\ FileCheck(files) = NoHttp
  /\ ~MetadataParseThrows(body)
  /\ ~DescriptionCheckThrows(body.value)
  /\ ~DescriptionMissing(body.value)

\* every file of the request has been processed
ImagesProcessed ==
  /\ Len(images) = Len(files)
  /\ \A i \in 1..Len(images) : images[i] = "done"

\* C21 as stated: a request makes at most one generation call, exactly one
\* when it passes validation and image processing, and a failed call ends the
\* request with an error, without a second call and without a result.
C21_Original ==
  /\ calls <= 1
  /\ (pc = "done" /\ PassedValidation /\ ImagesProcessed => calls = 1)
  /\ (pc = "done" /\ response.kind = "unavailable" =>
        calls = 1 /\ ~http.success /\ ~http.hasData /\ result = NoResult)

(* C22 *)

\* the answer of the route to more than four images
TooManyFiles == HttpError(400, "Maximum 4 images allowed")

\* C22 as stated: a request with more than 4 images is answered with the
\* too-many-files error, and no processImage call and no generation call is
\* made for it.
C22_Original ==
  pc = "done" /\ Len(files) > MaxImages =>
    http = TooManyFiles /\ images = <<>> /\ calls = 0

(* C23 *)

\* the image parts among the parts handed to the model
ImagePartsSent == {i \in 1..Len(parts) : parts[i].kind = "inlineData"}

\* C23: the generation call is prepared and made only when every file of the
\* request has been processed, with one image part for each file; a request
\* with a failed image makes no generation call and is answered with a
\* failure that carries no data.
C23_AllOrNothing ==
  /\ (pc \in {"generate", "parse"} \/ calls > 0 =>
        /\ ImagesProcessed
        /\ Cardinality(ImagePartsSent) = Len(files))
  /\ (pc = "done" /\ (\E i \in 1..Len(images) : images[i] = "failed") =>
        /\ calls = 0
        /\ http = AnalysisFailed
        /\ ~http.success /\ ~http.hasData
        /\ result = NoResult)

C23_Witness ==
  /\ pc = "done"
  /\ Len(files) >= 2
  /\ \E i \in 1..Len(images) : images[i] = "failed"
  /\ \E i \in 1..Len(images) : images[i] = "done"
  /\ http = AnalysisFailed
  /\ calls = 0

(* C24 *)

\* C24: in a process without a database no users request gets past
\* requireDatabase: each is answered 503 and none invokes a database function,
\* so no pool is created and no row is written; and in every process a step of
\* a diagnose or chat request leaves the database module, the users table and
\* the users requests as they are.
C24_NoPersistenceNeeded ==
  /\ [](~DB_HOST =>
          /\ dbEnabled /\ ~pool /\ users = <<>>
          /\ \A c \in Clients :
               /\ usr[c].called = "none"
               /\ usr[c].pc \in {"idle", "done"}
               /\ (usr[c].pc = "done" => usr[c].http = DatabaseDisabled))
  /\ [][(diagVars' # diagVars \/ chat' # chat) => UNCHANGED <<dbVars, usr>>]_vars

C24_Witness ==
  /\ ~DB_HOST
  /\ pc = "done" /\ outcome = "ok" /\ http = HttpSuccess
  /\ chat.pc = "done" /\ chat.http = HttpSuccess
  /\ usr["c1"].pc = "done" /\ usr["c1"].route = "register"
  /\ usr["c1"].http = DatabaseDisabled
  /\ usr["c2"].pc = "done" /\ usr["c2"].route = "analyses"
  /\ usr["c2"].http = DatabaseDisabled

(* C25 *)

\* C25 as stated: a result returned for a request of the final round
\* (round 3 or later) has needsMoreInfo = false and no questions, whatever
\* the model reported.
C25_Original ==
  Returned /\ RoundNumber(metadata) >= maxRounds =>
    ~result.needsMoreInfo /\ Len(result.questions) = 0

(* C26 *)

\* a register request with the device id D1 and no email has been answered
\* with a user
DeviceRegistered(c) ==
  /\ usr[c].pc = "done"
  /\ usr[c].route = "register"
  /\ usr[c].email = "" /\ usr[c].deviceId = D1
  /\ usr[c].http = HttpSuccess

\* the users table has been written by device-only register requests alone
OnlyDeviceCalls ==
  /\ \A i \in 1..Len(users) : users[i].email = NULL
  /\ \A c \in Clients : usr[c].email = "" /\ usr[c].route \in {"none", "register"}

\* the rows of the users table with the device id D1
DeviceRows == {i \in 1..Len(users) : users[i].device_id = D1}

\* C26 as stated: when the register requests with the same deviceId and no
\* email have been answered, one row of users holds that device_id and every
\* request was given the id of that row.
C26_Original ==
  \A c, d \in Clients :
    OnlyDeviceCalls /\ DeviceRegistered(c) /\ DeviceRegistered(d) =>
      /\ Cardinality(DeviceRows) = 1
      /\ usr[c].data.id = usr[d].data.id

====
